---------------------------- MODULE Spec2Model ----------------------------
(***************************************************************************)
(* Model of main.py: the Plane -> Discord webhook relay.                   *)
(*                                                                         *)
(* Strings that the program inspects character by character (the UUID      *)
(* pattern, endswith, capitalize, replace, the URL scheme pattern) are     *)
(* sequences of one-character strings.  Three glyphs of the source that    *)
(* are not ASCII are written as one-element tokens: "EMDASH" for the       *)
(* placeholder, "ARROW" for the change arrow and "ICON_..." for the event  *)
(* icons; each counts as one character.                                    *)
(*                                                                         *)
(* Python values of type Any are tagged records:                           *)
(*   [t |-> "none"], [t |-> "str", s |-> chars], [t |-> "int", n |-> i],   *)
(*   [t |-> "list", l |-> <<values>>], [t |-> "dict", d |-> <<pairs>>]     *)
(* where a dict keeps its insertion order as a sequence of <<key, value>>. *)
(***************************************************************************)
EXTENDS Integers, Sequences, FiniteSets, TLC

VARIABLES
    payload,     \* the PlaneWebhook being handled
    env,         \* PLANE_BASE_URL / PLANE_API_TOKEN as read at import time
    pc,          \* position of the handler coroutine
    url,         \* _download_avatar: the resolved URL
    headers,     \* _download_avatar: the headers dict of the first request
    avatar_job,  \* handle_plane_webhook: result of _download_avatar
    embed,       \* handle_plane_webhook: result of build_discord_embed
    calls,       \* every outbound HTTP call and the composition, in order
    response     \* what the caller of the endpoint gets

vars == <<payload, env, pc, url, headers, avatar_job, embed, calls, response>>

-----------------------------------------------------------------------------
(* Characters and str methods                                              *)

LowerChars == <<"a", "b", "c", "d", "e", "f", "g", "h", "i", "j", "k", "l", "m", "n", "o", "p", "q", "r", "s", "t", "u", "v", "w", "x", "y", "z">>
UpperChars == <<"A", "B", "C", "D", "E", "F", "G", "H", "I", "J", "K", "L", "M", "N", "O", "P", "Q", "R", "S", "T", "U", "V", "W", "X", "Y", "Z">>
DigitChars == <<"0", "1", "2", "3", "4", "5", "6", "7", "8", "9">>
HexChars == {DigitChars[i] : i \in 1..10} \cup {LowerChars[i] : i \in 1..6}
                \cup {UpperChars[i] : i \in 1..6}

Range(s) == {s[i] : i \in DOMAIN s}

\* str.lower() on one character
LowerChar(c) ==
    IF c \in Range(UpperChars)
    THEN LowerChars[CHOOSE i \in 1..26 : UpperChars[i] = c]
    ELSE c

\* str.upper() on one character
UpperChar(c) ==
    IF c \in Range(LowerChars)
    THEN UpperChars[CHOOSE i \in 1..26 : LowerChars[i] = c]
    ELSE c

Lower(s) == [i \in DOMAIN s |-> LowerChar(s[i])]

\* str.capitalize(): first character upper-cased, the rest lower-cased
Capitalize(s) == [i \in DOMAIN s |-> IF i = 1 THEN UpperChar(s[i]) ELSE LowerChar(s[i])]

StartsWith(s, prefix) ==
    /\ Len(s) >= Len(prefix)
    /\ SubSeq(s, 1, Len(prefix)) = prefix

EndsWith(s, suffix) ==
    /\ Len(s) >= Len(suffix)
    /\ SubSeq(s, Len(s) - Len(suffix) + 1, Len(s)) = suffix

\* str.replace(old, new) for a non-empty old: leftmost, non-overlapping
RECURSIVE Replace(_, _, _)
Replace(s, old, new) ==
    IF Len(s) = 0 THEN <<>>
    ELSE IF StartsWith(s, old)
         THEN new \o Replace(SubSeq(s, Len(old) + 1, Len(s)), old, new)
         ELSE <<s[1]>> \o Replace(Tail(s), old, new)

\* str.lstrip(ch) for a single character ch
RECURSIVE LStrip(_, _)
LStrip(s, ch) ==
    IF Len(s) > 0 /\ s[1] = ch THEN LStrip(Tail(s), ch) ELSE s

\* str.rstrip(ch) for a single character ch
RECURSIVE RStrip(_, _)
RStrip(s, ch) ==
    IF Len(s) > 0 /\ s[Len(s)] = ch THEN RStrip(SubSeq(s, 1, Len(s) - 1), ch) ELSE s

\* sep.join(parts)
RECURSIVE Join(_, _)
Join(sep, parts) ==
    IF Len(parts) = 0 THEN <<>>
    ELSE IF Len(parts) = 1 THEN parts[1]
    ELSE parts[1] \o sep \o Join(sep, Tail(parts))

\* s.split(";")[0]
RECURSIVE BeforeSemicolon(_)
BeforeSemicolon(s) ==
    IF Len(s) = 0 \/ s[1] = ";" THEN <<>>
    ELSE <<s[1]>> \o BeforeSemicolon(Tail(s))

\* str(n) for an int
RECURSIVE IntToStr(_)
IntToStr(n) ==
    IF n < 0 THEN <<"-">> \o IntToStr(0 - n)
    ELSE IF n < 10 THEN <<DigitChars[n + 1]>>
    ELSE IntToStr(n \div 10) \o <<DigitChars[(n % 10) + 1]>>

-----------------------------------------------------------------------------
(* Python values                                                           *)

PyNone == [t |-> "none"]
PyStr(s) == [t |-> "str", s |-> s]
PyInt(n) == [t |-> "int", n |-> n]
PyList(l) == [t |-> "list", l |-> l]
PyDict(d) == [t |-> "dict", d |-> d]

\* bool(value)
Truthy(v) ==
    CASE v.t = "none" -> FALSE
      [] v.t = "str" -> Len(v.s) > 0
      [] v.t = "int" -> v.n # 0
      [] v.t = "list" -> Len(v.l) > 0
      [] v.t = "dict" -> Len(v.d) > 0
      [] OTHER -> TRUE

\* key in d, for the pairs d of a dict
HasKey(d, key) == \E i \in DOMAIN d : d[i][1] = key

\* d.get(key, default), for the pairs d of a dict
DictGet(d, key, default) ==
    IF HasKey(d, key) THEN d[CHOOSE i \in DOMAIN d : d[i][1] = key][2] ELSE default

\* repr() of a str without quotes or backslashes
ReprStr(s) == <<"'">> \o s \o <<"'">>

\* str(value); repr() agrees with it on everything but a str
RECURSIVE PyToStr(_, _)
PyToStr(v, quoted) ==
    CASE v.t = "none" -> <<"N", "o", "n", "e">>
      [] v.t = "str" -> IF quoted THEN ReprStr(v.s) ELSE v.s
      [] v.t = "int" -> IntToStr(v.n)
      [] v.t = "list" ->
            <<"[">> \o Join(<<",", " ">>, [i \in DOMAIN v.l |-> PyToStr(v.l[i], TRUE)]) \o <<"]">>
      [] v.t = "dict" ->
            <<"{">> \o Join(<<",", " ">>,
                [i \in DOMAIN v.d |->
                    ReprStr(v.d[i][1]) \o <<":", " ">> \o PyToStr(v.d[i][2], TRUE)])
            \o <<"}">>

Str(v) == PyToStr(v, FALSE)

-----------------------------------------------------------------------------
(* Discord helpers                                                         *)

Placeholder == <<"EMDASH">>
Arrow == <<"ARROW">>
NewLine == "\n"

ColorGreen == 3066993
ColorYellow == 15844367
ColorRed == 15158332
ColorBlue == 3447003

\* ACTION_COLOR.get(action, 0x3498DB)
ACTION_COLOR(action) ==
    CASE action \in {<<"c", "r", "e", "a", "t", "e">>, <<"c", "r", "e", "a", "t", "e", "d">>} -> ColorGreen
      [] action \in {<<"u", "p", "d", "a", "t", "e">>, <<"u", "p", "d", "a", "t", "e", "d">>} -> ColorYellow
      [] action \in {<<"d", "e", "l", "e", "t", "e">>, <<"d", "e", "l", "e", "t", "e", "d">>} -> ColorRed
      [] OTHER -> ColorBlue

\* EVENT_ICON.get(event, info glyph)
EVENT_ICON(event) ==
    CASE event = <<"i", "s", "s", "u", "e">> -> <<"ICON_BUG">>
      [] event = <<"p", "r", "o", "j", "e", "c", "t">> -> <<"ICON_FOLDER">>
      [] event = <<"c", "y", "c", "l", "e">> -> <<"ICON_CALENDAR">>
      [] event = <<"c", "o", "m", "m", "e", "n", "t">> -> <<"ICON_SPEECH">>
      [] OTHER -> <<"ICON_INFO">>

\* _URL_RE.match(s): ^(https?://|attachment://), ignoring case
UrlReMatch(s) ==
    \E prefix \in {<<"h", "t", "t", "p", ":", "/", "/">>, <<"h", "t", "t", "p", "s", ":", "/", "/">>, <<"a", "t", "t", "a", "c", "h", "m", "e", "n", "t", ":", "/", "/">>} :
        /\ Len(s) >= Len(prefix)
        /\ Lower(SubSeq(s, 1, Len(prefix))) = prefix

\* _UUID_RE.match(s): 8-4-4-4-12 hexadecimal digits, ignoring case; the
\* pattern's $ also matches just before one trailing newline
UuidReMatch(s) ==
    LET body == IF Len(s) = 37 /\ s[37] = NewLine THEN SubSeq(s, 1, 36) ELSE s
    IN  /\ Len(body) = 36
        /\ \A i \in 1..36 :
              IF i \in {9, 14, 19, 24} THEN body[i] = "-" ELSE body[i] \in HexChars

_is_valid_url(v) == Truthy(v) /\ v.t = "str" /\ UrlReMatch(v.s)

\* value in (None, "", [], {})
IsEmptyValue(v) ==
    \/ v.t = "none"
    \/ v.t = "str" /\ Len(v.s) = 0
    \/ v.t = "list" /\ Len(v.l) = 0
    \/ v.t = "dict" /\ Len(v.d) = 0

\* the dict branch of _sanitize_value: the first of display_name, name, title
\* that is present and truthy, else str(dict)
SanitizeDict(v) ==
    LET keys == << <<"d", "i", "s", "p", "l", "a", "y", "_", "n", "a", "m", "e">>, <<"n", "a", "m", "e">>, <<"t", "i", "t", "l", "e">> >>
        hit(i) == HasKey(v.d, keys[i]) /\ Truthy(DictGet(v.d, keys[i], PyNone))
    IN  IF \E i \in 1..3 : hit(i)
        THEN Str(DictGet(v.d, keys[CHOOSE i \in 1..3 : hit(i) /\ \A j \in 1..(i - 1) : ~hit(j)], PyNone))
        ELSE Str(v)

RECURSIVE _sanitize_value(_)
_sanitize_value(v) ==
    IF IsEmptyValue(v) THEN Placeholder
    ELSE IF v.t = "list"
    THEN LET pretty == [i \in DOMAIN v.l |-> _sanitize_value(v.l[i])]
             kept == SelectSeq(pretty, LAMBDA p : p # Placeholder)
             joined == Join(<<",", " ">>, kept)
         IN  IF Len(joined) > 0 THEN joined ELSE Placeholder
    ELSE IF v.t = "dict" THEN SanitizeDict(v)
    ELSE IF v.t = "str" /\ UuidReMatch(v.s) THEN Placeholder
    ELSE Str(v)

_make_field(name, value, inline) ==
    [name |-> name, value |-> _sanitize_value(value), inline |-> inline]

_arrow_change(old, new) ==
    _sanitize_value(old) \o <<" ">> \o Arrow \o <<" ">> \o _sanitize_value(new)

-----------------------------------------------------------------------------
(* build_discord_embed.  The result is [k |-> "embed", embed |-> ...] for  *)
(* a returned dict, [k |-> "none"] for a returned None and                 *)
(* [k |-> "raise", exc |-> ...] when an exception leaves the function.     *)

Ok(v) == [ok |-> TRUE, v |-> v]
Raise(exc) == [ok |-> FALSE, exc |-> exc]

\* p.data.get("state", {}).get("name"): only a dict has .get
StateName(data) ==
    LET state == DictGet(data.d, <<"s", "t", "a", "t", "e">>, PyDict(<<>>))
    IN  IF state.t = "dict" THEN Ok(DictGet(state.d, <<"n", "a", "m", "e">>, PyNone))
        ELSE Raise("AttributeError")

\* a.get("display_name") or a.get("name")
AssigneeName(a) ==
    LET dn == DictGet(a.d, <<"d", "i", "s", "p", "l", "a", "y", "_", "n", "a", "m", "e">>, PyNone)
    IN  IF Truthy(dn) THEN dn ELSE DictGet(a.d, <<"n", "a", "m", "e">>, PyNone)

\* [a.get("display_name") or a.get("name") for a in p.data.get("assignees", [])]
\* None and int are not iterable; a str iterates its characters and a dict its
\* keys, none of which has .get; a list element must be a dict to have .get
AssigneeNames(data) ==
    LET assignees == DictGet(data.d, <<"a", "s", "s", "i", "g", "n", "e", "e", "s">>, PyList(<<>>))
    IN  CASE assignees.t \in {"none", "int"} -> Raise("TypeError")
          [] assignees.t = "str" -> IF Len(assignees.s) = 0 THEN Ok(PyList(<<>>)) ELSE Raise("AttributeError")
          [] assignees.t = "dict" -> IF Len(assignees.d) = 0 THEN Ok(PyList(<<>>)) ELSE Raise("AttributeError")
          [] assignees.t = "list" ->
                IF \A i \in DOMAIN assignees.l : assignees.l[i].t = "dict"
                THEN Ok(PyList([i \in DOMAIN assignees.l |-> AssigneeName(assignees.l[i])]))
                ELSE Raise("AttributeError")

\* p.data.get("name") or "<untitled>"
DataTitle(data) ==
    LET name == DictGet(data.d, <<"n", "a", "m", "e">>, PyNone)
    IN  IF Truthy(name) THEN name ELSE PyStr(<<"<", "u", "n", "t", "i", "t", "l", "e", "d", ">">>)

HasActor(p) == p.activity.t # "none" /\ p.activity.actor.t # "none"

\* p.activity and p.activity.field
HasField(p) == p.activity.t # "none" /\ Truthy(p.activity.field)

\* lines 155-164: the fields and the title that depend on the event category
EventSpecifics(p) ==
    IF p.event = <<"i", "s", "s", "u", "e">>
    THEN LET sn == StateName(p.data)
             an == AssigneeNames(p.data)
         IN  IF ~sn.ok THEN sn
             ELSE IF ~an.ok THEN an
             ELSE Ok([fields |-> << _make_field(<<"S", "t", "a", "t", "e">>, sn.v, TRUE),
                                    _make_field(<<"A", "s", "s", "i", "g", "n", "e", "e", "s">>, an.v, TRUE) >>,
                      title |-> DataTitle(p.data)])
    ELSE IF p.event = <<"p", "r", "o", "j", "e", "c", "t">>
    THEN Ok([fields |-> <<>>, title |-> DataTitle(p.data)])
    ELSE Ok([fields |-> <<>>, title |-> PyStr(Capitalize(p.event))])

\* lines 166-184: "suppress" for return None, else the change field (or none)
ChangeField(p) ==
    IF ~HasField(p) THEN Ok([suppress |-> FALSE, fields |-> <<>>])
    ELSE IF EndsWith(p.activity.field.s, <<"_", "i", "d">>)
    THEN Ok([suppress |-> TRUE, fields |-> <<>>])
    ELSE LET field_name == Capitalize(Replace(Replace(p.activity.field.s, <<"_", "i", "d">>, <<>>),
                                              <<"_">>, <<" ">>))
             old_val == p.activity.old_value
             sn == StateName(p.data)
             isState == p.activity.field.s = <<"s", "t", "a", "t", "e", "_", "i", "d">>
             new_val == IF isState /\ sn.ok /\ Truthy(sn.v) THEN sn.v
                        ELSE p.activity.new_value
         IN  IF isState /\ ~sn.ok THEN sn
             ELSE Ok([suppress |-> FALSE,
                      fields |-> << _make_field(field_name,
                                        PyStr(_arrow_change(old_val, new_val)), FALSE) >>])

\* lines 193-196
Thumbnail(data) ==
    LET first == DictGet(data.d, <<"c", "o", "v", "e", "r", "_", "i", "m", "a", "g", "e", "_", "u", "r", "l">>, PyNone)
    IN  IF Truthy(first) THEN first ELSE DictGet(data.d, <<"c", "o", "v", "e", "r", "_", "i", "m", "a", "g", "e">>, PyNone)

build_discord_embed(p, author_icon_url, now) ==
    LET action == Lower(p.action)
        color == ACTION_COLOR(action)
        icon == EVENT_ICON(p.event)
        actor_name == IF HasActor(p) THEN p.activity.actor.display_name
                      ELSE PyStr(<<"U", "n", "k", "n", "o", "w", "n">>)
        common == << _make_field(<<"E", "v", "e", "n", "t">>, PyStr(Capitalize(p.event)), TRUE),
                     _make_field(<<"A", "c", "t", "i", "o", "n">>, PyStr(Capitalize(p.action)), TRUE),
                     _make_field(<<"B", "y">>, actor_name, TRUE) >>
        spec == EventSpecifics(p)
        change == ChangeField(p)
        thumb == Thumbnail(p.data)
        author == IF Truthy(author_icon_url)
                  THEN [name |-> actor_name, icon_url |-> author_icon_url]
                  ELSE [name |-> actor_name]
        base == [title |-> icon \o <<" ", " ">> \o Str(spec.v.title),
                 color |-> color,
                 fields |-> common \o spec.v.fields \o change.v.fields,
                 timestamp |-> now,
                 author |-> author]
    IN  IF ~spec.ok THEN [k |-> "raise", exc |-> spec.exc]
        ELSE IF ~change.ok THEN [k |-> "raise", exc |-> change.exc]
        ELSE IF change.v.suppress THEN [k |-> "none"]
        ELSE [k |-> "embed",
              embed |-> IF _is_valid_url(thumb)
                        THEN [title |-> base.title, color |-> base.color,
                              fields |-> base.fields, timestamp |-> base.timestamp,
                              thumbnail |-> [url |-> thumb.s], author |-> base.author]
                        ELSE base]

-----------------------------------------------------------------------------
(* Avatar helpers: the pure parts of _download_avatar                      *)

\* PLANE_BASE_URL = os.getenv("PLANE_BASE_URL", "").rstrip("/")
PLANE_BASE_URL(raw) == RStrip(raw, "/")

\* urljoin(PLANE_BASE_URL + "/", avatar_path.lstrip("/")) for a relative path
\* without scheme, query or dot segments: the path is appended to the base
ResolveRelative(base, avatar_path) == base \o <<"/">> \o LStrip(avatar_path, "/")

\* lines 220-225: the URL to fetch, or None when it cannot be resolved
ResolveUrl(e, avatar_path) ==
    IF _is_valid_url(avatar_path) THEN avatar_path
    ELSE IF Len(e.PLANE_BASE_URL) = 0 THEN PyNone
    ELSE PyStr(ResolveRelative(e.PLANE_BASE_URL, avatar_path.s))

\* lines 227-229: the headers dict as <<name, value>> pairs
InitialHeaders(e) ==
    IF Truthy(e.PLANE_API_TOKEN)
    THEN << <<"Authorization", <<"B", "e", "a", "r", "e", "r", " ">> \o e.PLANE_API_TOKEN.s>> >>
    ELSE <<>>

\* a follow-up request that reuses the headers as they are
RedirectHeadersKeepAuth(hdrs) == hdrs

\* lines 241-242: headers.copy() with "Authorization" popped
RedirectHeaders(hdrs) == SelectSeq(hdrs, LAMBDA h : h[1] # "Authorization")

RedirectStatuses == {301, 302, 303, 307, 308}

\* a fetch that follows any Location, whatever the status
FollowsRedirectAnyStatus(reply) == reply.k = "response" /\ Truthy(reply.location)

\* lines 236-238: a redirect status with a non-empty Location
FollowsRedirect(reply) ==
    /\ reply.k = "response"
    /\ reply.status \in RedirectStatuses
    /\ Truthy(reply.location)

\* mimetypes.guess_extension on the types the replies carry; None otherwise
GuessExtension(type) ==
    CASE type = <<"i", "m", "a", "g", "e", "/", "p", "n", "g">> -> PyStr(<<".", "p", "n", "g">>)
      [] type = <<"i", "m", "a", "g", "e", "/", "j", "p", "e", "g">> -> PyStr(<<".", "j", "p", "g">>)
      [] type = <<"i", "m", "a", "g", "e", "/", "g", "i", "f">> -> PyStr(<<".", "g", "i", "f">>)
      [] type = <<"t", "e", "x", "t", "/", "h", "t", "m", "l">> -> PyStr(<<".", "h", "t", "m", "l">>)
      [] OTHER -> PyNone

\* lines 247-252: (content, filename, mime) of a successful response
AvatarTuple(reply) ==
    LET content_type == Lower(IF reply.content_type.t = "none" THEN <<>>
                              ELSE reply.content_type.s)
        type == BeforeSemicolon(content_type)
        guessed == GuessExtension(type)
        ext == IF Truthy(guessed) THEN guessed.s ELSE <<".", "p", "n", "g">>
        mime == IF Len(type) > 0 THEN type ELSE <<"i", "m", "a", "g", "e", "/", "p", "n", "g">>
    IN  [t |-> "tuple", content |-> reply.content,
         filename |-> <<"a", "v", "a", "t", "a", "r">> \o ext, mime |-> mime]

\* a fetch without raise_for_status()
AvatarResultNoStatusCheck(reply) ==
    IF reply.k = "error" THEN PyNone ELSE AvatarTuple(reply)

\* lines 246-255: what _download_avatar returns for its final reply.  A
\* transport error or timeout, and raise_for_status() on a status outside
\* 2xx, are caught by the except clause, which returns None.
AvatarResult(reply) ==
    IF reply.k = "error" THEN PyNone
    ELSE IF reply.status >= 200 /\ reply.status <= 299 THEN AvatarTuple(reply)
    ELSE PyNone

-----------------------------------------------------------------------------
(* The relay: the pure parts of handle_plane_webhook                       *)

DISCORD_WEBHOOK_URL == "DISCORD_WEBHOOK_URL"

Quote == "\""
Space == " "

\* json.loads on a scalar: null, a decimal number without sign, or a string
\* without escapes
RECURSIVE DigitsValue(_)
DigitsValue(s) ==
    IF Len(s) = 0 THEN 0
    ELSE 10 * DigitsValue(SubSeq(s, 1, Len(s) - 1))
         + ((CHOOSE i \in 1..10 : DigitChars[i] = s[Len(s)]) - 1)

JsonScalar(s) ==
    IF s = <<"n", "u", "l", "l">> THEN Ok(PyNone)
    ELSE IF /\ Len(s) >= 2
            /\ s[1] = Quote
            /\ s[Len(s)] = Quote
            /\ \A i \in 2..(Len(s) - 1) : s[i] \notin {Quote, "\\"}
    THEN Ok(PyStr(SubSeq(s, 2, Len(s) - 1)))
    ELSE IF /\ Len(s) >= 1
            /\ \A i \in DOMAIN s : s[i] \in Range(DigitChars)
            /\ (Len(s) = 1 \/ s[1] # "0")
    THEN Ok(PyInt(DigitsValue(s)))
    ELSE Raise("JSONDecodeError")

\* resp.json() on the bodies the relay replies carry: a scalar, {} or an
\* object of one "key": scalar member; anything else here is not JSON
JsonLoads(s) ==
    IF Len(s) >= 2 /\ s[1] = "{" /\ s[Len(s)] = "}"
    THEN LET inner == SubSeq(s, 2, Len(s) - 1)
             closes == {j \in 2..Len(inner) : inner[j] = Quote}
             j == CHOOSE k \in closes : \A m \in closes : k <= m
             key == SubSeq(inner, 2, j - 1)
             value == JsonScalar(LStrip(SubSeq(inner, j + 2, Len(inner)), Space))
         IN  IF Len(inner) = 0 THEN Ok(PyDict(<<>>))
             ELSE IF /\ inner[1] = Quote
                     /\ closes # {}
                     /\ Len(inner) > j
                     /\ inner[j + 1] = ":"
                     /\ value.ok
             THEN Ok(PyDict(<< <<key, value.v>> >>))
             ELSE Raise("JSONDecodeError")
    ELSE JsonScalar(s)

\* lines 302-305: resp.json(), or resp.text when that raises
ErrInfo(text) ==
    LET parsed == JsonLoads(text)
    IN  IF parsed.ok THEN parsed.v ELSE PyStr(text)

\* a relay that takes 204 alone for success
RelaySucceededOnly204(status) == status = 204

\* line 301: resp.status_code in (200, 204)
RelaySucceeded(status) == status \in {200, 204}

\* lines 299-312: the handler's answer to the relay's reply.  An exception
\* of client.post (transport error, timeout) is not caught by the handler.
RelayResponse(reply) ==
    IF reply.k = "error" THEN [code |-> 500, exc |-> "TransportError"]
    ELSE IF ~RelaySucceeded(reply.status)
    THEN [code |-> 500,
          body |-> [detail |-> <<"D", "i", "s", "c", "o", "r", "d", " ", "w", "e", "b", "h", "o", "o", "k", " ", "f", "a", "i", "l", "e", "d", " ", "(">> \o IntToStr(reply.status)
                               \o <<")", ":", " ">> \o Str(ErrInfo(reply.text))]]
    ELSE [code |-> 200, body |-> [status |-> "Message forwarded to Discord successfully"]]

\* what build_discord_embed returned: the embed dict, or None
ReturnValue(built) == IF built.k = "embed" THEN built.embed ELSE PyNone

\* a handler without the early return
ShouldRelayAlways(built) == TRUE

\* line 275: `if not embed` returns early; a returned embed is a non-empty dict
ShouldRelay(built) == built.k = "embed"

\* lines 275-277
SuppressedResponse ==
    [code |-> 200, body |-> [status |-> "No relevant changes to report to discord"]]

\* line 272: f"attachment://{avatar_job[1]}" if avatar_job else None
AuthorIcon(job) ==
    IF job.t = "tuple" THEN PyStr(<<"a", "t", "t", "a", "c", "h", "m", "e", "n", "t", ":", "/", "/">> \o job.filename) ELSE PyNone

\* lines 279-297: the POST to the Discord webhook
RelayCall(e, job) ==
    [op |-> "POST", url |-> DISCORD_WEBHOOK_URL,
     kind |-> IF job.t = "tuple" THEN "multipart" ELSE "json",
     payload |-> [embeds |-> <<e>>, allowed_mentions |-> [parse |-> <<>>]],
     file |-> job, reply |-> [k |-> "pending"]]

\* lines 234 and 243: client.get(url, headers=..., follow_redirects=False)
GetCall(u, hdrs) ==
    [op |-> "GET", url |-> u, headers |-> hdrs, follow_redirects |-> FALSE,
     reply |-> [k |-> "pending"]]

\* the reply that arrived for the call awaited last
Answered(cs, reply) == [cs EXCEPT ![Len(cs)].reply = reply]

-----------------------------------------------------------------------------
(* Inputs                                                                  *)

MaxAssignees == 1

UuidLower == <<"a", "b", "c", "d", "e", "f", "0", "1", "-", "2", "3", "4", "5", "-", "6", "7", "8", "9", "-", "a", "b", "c", "d", "-", "e", "f", "0", "1", "2", "3", "4", "5", "6", "7", "8", "9">>
UuidUpper == <<"A", "B", "C", "D", "E", "F", "0", "1", "-", "2", "3", "4", "5", "-", "6", "7", "8", "9", "-", "A", "B", "C", "D", "-", "E", "F", "0", "1", "2", "3", "4", "5", "6", "7", "8", "0">>

Unset == [k |-> "unset"]
Pending == [k |-> "pending"]

\* dict(...) of the members that are present: a member is <<key, value>>, and
\* <<>> stands for a key left out
DictOf(members) == PyDict(SelectSeq(members, LAMBDA m : Len(m) = 2))

Member(key, value) == <<key, value>>
Missing == <<>>

Actor(display_name, avatar_url) ==
    [t |-> "actor", id |-> UuidLower, display_name |-> display_name, avatar_url |-> avatar_url]

Activity(field, old_value, new_value, actor) ==
    [t |-> "activity", field |-> field, old_value |-> old_value,
     new_value |-> new_value, actor |-> actor]

PlaneWebhook(event, action, data, activity) ==
    [event |-> event, action |-> action, data |-> data, activity |-> activity]

Events == {<<"i", "s", "s", "u", "e">>, <<"p", "r", "o", "j", "e", "c", "t">>, <<"c", "o", "m", "m", "e", "n", "t">>}
Actions == {<<"u", "p", "d", "a", "t", "e", "d">>, <<"M", "e", "r", "g", "e", "d">>}
FieldNames == {PyNone, PyStr(<<"p", "r", "i", "o", "r", "i", "t", "y">>), PyStr(<<"a", "s", "s", "i", "g", "n", "e", "e", "_", "i", "d">>), PyStr(<<"s", "t", "a", "t", "e", "_", "i", "d">>)}

AssigneeValues ==
    {PyDict(<< <<<<"d", "i", "s", "p", "l", "a", "y", "_", "n", "a", "m", "e">>, PyStr(<<"A", "l", "i", "c", "e">>)>> >>),
     PyDict(<< <<<<"i", "d">>, PyStr(UuidLower)>>, <<<<"n", "a", "m", "e">>, PyStr(UuidUpper)>> >>),
     PyStr(<<"b", "o", "b">>)}

RECURSIVE SeqsUpTo(_, _)
SeqsUpTo(S, n) ==
    IF n = 0 THEN {<<>>}
    ELSE LET shorter == SeqsUpTo(S, n - 1)
         IN  shorter \cup {Append(s, x) : s \in shorter, x \in S}

\* the `data` mappings of the composition's inputs
ComposeData ==
    {DictOf(<<name, state, assignees, cover>>) :
        name \in {Missing, Member(<<"n", "a", "m", "e">>, PyStr(<<"F", "i", "x", " ", "l", "o", "g", "i", "n">>)),
                  Member(<<"n", "a", "m", "e">>, PyStr(UuidLower))},
        state \in {Missing, Member(<<"s", "t", "a", "t", "e">>, PyNone),
                   Member(<<"s", "t", "a", "t", "e">>, PyStr(<<"D", "o", "n", "e">>)),
                   Member(<<"s", "t", "a", "t", "e">>, PyDict(<< <<<<"n", "a", "m", "e">>, PyStr(<<"D", "o", "n", "e">>)>> >>)),
                   Member(<<"s", "t", "a", "t", "e">>, PyDict(<< <<<<"n", "a", "m", "e">>, PyStr(UuidUpper)>> >>)),
                   Member(<<"s", "t", "a", "t", "e">>, PyDict(<< <<<<"n", "a", "m", "e">>, PyStr(<<>>)>> >>))},
        assignees \in {Missing, Member(<<"a", "s", "s", "i", "g", "n", "e", "e", "s">>, PyNone)}
                      \cup {Member(<<"a", "s", "s", "i", "g", "n", "e", "e", "s">>, PyList(l)) :
                                l \in SeqsUpTo(AssigneeValues, MaxAssignees)},
        cover \in {Missing, Member(<<"c", "o", "v", "e", "r", "_", "i", "m", "a", "g", "e", "_", "u", "r", "l">>, PyStr(<<"h", "t", "t", "p", "s", ":", "/", "/", "c", "/", "i", ".", "p", "n", "g">>)),
                   Member(<<"c", "o", "v", "e", "r", "_", "i", "m", "a", "g", "e">>, PyStr(<<"j", "a", "v", "a", "s", "c", "r", "i", "p", "t", ":", "x">>))}}

ComposeActivities ==
    {PyNone} \cup
    {Activity(field, old, new, actor) :
        field \in FieldNames,
        old \in {PyStr(UuidLower), PyStr(<<"T", "o", "d", "o">>),
                 PyDict(<< <<<<"i", "d">>, PyStr(<<"a", "1">>)>>, <<<<"n", "a", "m", "e">>, PyStr(UuidUpper)>> >>)},
        new \in {PyStr(UuidUpper), PyInt(2),
                 PyList(<< PyStr(UuidLower), PyDict(<< <<<<"i", "d">>, PyInt(70)>> >>), PyNone >>)},
        actor \in {PyNone, Actor(PyStr(<<"A", "n", "n">>), PyNone), Actor(PyStr(UuidUpper), PyNone)}}

ComposePayloads ==
    {PlaneWebhook(event, action, data, activity) :
        event \in Events, action \in Actions,
        data \in ComposeData, activity \in ComposeActivities}

Timestamps == {"2026-01-01T00:00:00+00:00", "2026-01-01T00:00:01+00:00"}

\* the events the endpoint is driven with
HandlerData ==
    {PyDict(<<>>),
     PyDict(<< <<<<"s", "t", "a", "t", "e">>, PyNone>> >>),
     PyDict(<< <<<<"n", "a", "m", "e">>, PyStr(<<"F", "i", "x", " ", "l", "o", "g", "i", "n">>)>>,
               <<<<"s", "t", "a", "t", "e">>, PyDict(<< <<<<"n", "a", "m", "e">>, PyStr(<<"D", "o", "n", "e">>)>> >>)>>,
               <<<<"a", "s", "s", "i", "g", "n", "e", "e", "s">>, PyList(<< PyDict(<< <<<<"d", "i", "s", "p", "l", "a", "y", "_", "n", "a", "m", "e">>, PyStr(<<"A", "l", "i", "c", "e">>)>> >>) >>)>>,
               <<<<"c", "o", "v", "e", "r", "_", "i", "m", "a", "g", "e", "_", "u", "r", "l">>, PyStr(<<"h", "t", "t", "p", "s", ":", "/", "/", "c", "/", "i", ".", "p", "n", "g">>)>> >>)}

HandlerActors ==
    {PyNone,
     Actor(PyStr(<<"A", "n", "n">>), PyNone),
     Actor(PyStr(<<"A", "n", "n">>), PyStr(<<"h", "t", "t", "p", "s", ":", "/", "/", "p", "/", "a", ".", "p", "n", "g">>)),
     Actor(PyStr(UuidUpper), PyStr(<<"/", "m", "e", "d", "i", "a", "/", "a", ".", "p", "n", "g">>))}

HandlerActivities ==
    {PyNone} \cup
    {Activity(field, PyStr(UuidLower), PyStr(<<"H", "i", "g", "h">>), actor) :
        field \in FieldNames, actor \in HandlerActors}

HandlerPayloads ==
    {PlaneWebhook(event, <<"u", "p", "d", "a", "t", "e", "d">>, data, activity) :
        event \in {<<"i", "s", "s", "u", "e">>, <<"c", "o", "m", "m", "e", "n", "t">>},
        data \in HandlerData, activity \in HandlerActivities}

Environments ==
    {[PLANE_BASE_URL |-> PLANE_BASE_URL(raw), PLANE_API_TOKEN |-> token] :
        raw \in {<<>>, <<"h", "t", "t", "p", "s", ":", "/", "/", "p", "/">>},
        token \in {PyNone, PyStr(<<"t", "o", "k">>)}}

\* what the Plane server or the storage behind it may answer to a GET
GetReplies ==
    {[k |-> "error"]} \cup
    {[k |-> "response", status |-> status, location |-> location,
      content_type |-> content_type, content |-> "IMAGE_BYTES"] :
        status \in {200, 302, 404},
        location \in {PyNone, PyStr(<<"h", "t", "t", "p", "s", ":", "/", "/", "s", "/", "x", "?", "s", "i", "g", "=", "1">>)},
        content_type \in {PyNone, PyStr(<<"I", "m", "a", "g", "e", "/", "G", "I", "F", ";", " ", "q", "=", "1">>)}}

\* what Discord may answer to the POST
PostReplies ==
    {[k |-> "error"]} \cup
    {[k |-> "response", status |-> status, text |-> text] :
        status \in {200, 204, 400},
        text \in {<<"{", "\"", "m", "e", "s", "s", "a", "g", "e", "\"", ":", " ", "\"", "b", "a", "d", "\"", "}">>, <<"o", "o", "p", "s">>}}

-----------------------------------------------------------------------------
(* handle_plane_webhook, one action per stretch between two awaits         *)

Init ==
    /\ payload \in HandlerPayloads
    /\ env \in Environments
    /\ pc = "start"
    /\ url = PyNone
    /\ headers = <<>>
    /\ avatar_job = PyNone
    /\ embed = Unset
    /\ calls = <<>>
    /\ response = Pending

\* line 268: payload.activity and payload.activity.actor and ...avatar_url
WantsAvatar(p) == HasActor(p) /\ Truthy(p.activity.actor.avatar_url)

\* a handler that composes before it fetches the avatar
ReceiveWebhookComposeFirst ==
    /\ pc = "start"
    /\ \E now \in Timestamps : embed' = build_discord_embed(payload, PyNone, now)
    /\ LET avatar_path == payload.activity.actor.avatar_url
           resolved == ResolveUrl(env, avatar_path)
       IN  IF WantsAvatar(payload) /\ Truthy(avatar_path) /\ resolved.t = "str"
           THEN /\ url' = resolved
                /\ headers' = InitialHeaders(env)
                /\ calls' = Append(calls, GetCall(resolved.s, InitialHeaders(env)))
                /\ pc' = "get_first"
           ELSE /\ pc' = "compose"
                /\ UNCHANGED <<url, headers, calls>>
    /\ avatar_job' = PyNone
    /\ UNCHANGED <<payload, env, response>>

\* lines 267-269 and 217-234: decide whether to fetch the avatar, resolve its
\* URL and send the first GET
ReceiveWebhook ==
    /\ pc = "start"
    /\ LET avatar_path == payload.activity.actor.avatar_url
           resolved == ResolveUrl(env, avatar_path)
       IN  IF WantsAvatar(payload) /\ Truthy(avatar_path) /\ resolved.t = "str"
           THEN /\ url' = resolved
                /\ headers' = InitialHeaders(env)
                /\ calls' = Append(calls, GetCall(resolved.s, InitialHeaders(env)))
                /\ pc' = "get_first"
           ELSE /\ pc' = "compose"
                /\ UNCHANGED <<url, headers, calls>>
    /\ avatar_job' = PyNone
    /\ UNCHANGED <<payload, env, embed, response>>

\* lines 234-255: the reply to the first GET; a redirect with a Location is
\* followed by hand, once, without the Authorization header
AvatarFirstReply ==
    /\ pc = "get_first"
    /\ \E reply \in GetReplies :
          IF FollowsRedirect(reply)
          THEN /\ calls' = Append(Answered(calls, reply),
                                  GetCall(reply.location.s, RedirectHeaders(headers)))
               /\ pc' = "get_redirect"
               /\ UNCHANGED avatar_job
          ELSE /\ calls' = Answered(calls, reply)
               /\ avatar_job' = AvatarResult(reply)
               /\ pc' = "compose"
    /\ UNCHANGED <<payload, env, url, headers, embed, response>>

\* lines 243-255: the reply to the follow-up GET is final
AvatarRedirectReply ==
    /\ pc = "get_redirect"
    /\ \E reply \in GetReplies :
          /\ calls' = Answered(calls, reply)
          /\ avatar_job' = AvatarResult(reply)
    /\ pc' = "compose"
    /\ UNCHANGED <<payload, env, url, headers, embed, response>>

\* lines 271-297: build the embed; return early when there is none, else
\* send the POST
Compose ==
    /\ pc = "compose"
    /\ \E now \in Timestamps :
          LET built == build_discord_embed(payload, AuthorIcon(avatar_job), now)
          IN  /\ embed' = built
              /\ IF built.k = "raise"
                 THEN /\ response' = [code |-> 500, exc |-> built.exc]
                      /\ pc' = "done"
                      /\ UNCHANGED calls
                 ELSE IF ~ShouldRelay(built)
                 THEN /\ response' = SuppressedResponse
                      /\ pc' = "done"
                      /\ UNCHANGED calls
                 ELSE /\ calls' = Append(calls, RelayCall(ReturnValue(built), avatar_job))
                      /\ pc' = "post"
                      /\ UNCHANGED response
    /\ UNCHANGED <<payload, env, url, headers, avatar_job>>

\* lines 299-312: Discord's reply decides the answer to the caller
RelayReply ==
    /\ pc = "post"
    /\ \E reply \in PostReplies :
          /\ calls' = Answered(calls, reply)
          /\ response' = RelayResponse(reply)
    /\ pc' = "done"
    /\ UNCHANGED <<payload, env, url, headers, avatar_job, embed>>

Next ==
    \/ ReceiveWebhook
    \/ AvatarFirstReply
    \/ AvatarRedirectReply
    \/ Compose
    \/ RelayReply

Spec == Init /\ [][Next]_vars

-----------------------------------------------------------------------------
(* build_discord_embed on its own, over a wider set of events              *)

InitCompose ==
    /\ payload \in ComposePayloads
    /\ env = [PLANE_BASE_URL |-> <<>>, PLANE_API_TOKEN |-> PyNone]
    /\ pc = "call"
    /\ url = PyNone
    /\ headers = <<>>
    /\ avatar_job = PyNone
    /\ embed = Unset
    /\ calls = <<>>
    /\ response = Pending

ComposeCall ==
    /\ pc = "call"
    /\ \E icon \in {PyNone, PyStr(<<"a", "t", "t", "a", "c", "h", "m", "e", "n", "t", ":", "/", "/", "a", "v", "a", "t", "a", "r", ".", "p", "n", "g">>)} :
          embed' = build_discord_embed(payload, icon, "2026-01-01T00:00:00+00:00")
    /\ pc' = "returned"
    /\ UNCHANGED <<payload, env, url, headers, avatar_job, calls, response>>

NextCompose == ComposeCall

SpecCompose == InitCompose /\ [][NextCompose]_vars

-----------------------------------------------------------------------------
(* Properties of build_discord_embed, checked under SpecCompose            *)

Returned == pc = "returned"

ChangedField == payload.activity.field.s

\* some 36 consecutive characters of s have the UUID shape
ContainsUuid(s) ==
    \E i \in 1..(Len(s) - 35) : UuidReMatch(SubSeq(s, i, i + 35))

LastField(e) == e.fields[Len(e.fields)]

\* C1: an event whose activity field name ends in _id and is not state_id
\* makes build_discord_embed return None, whatever the rest of the event is.
C1_IdFieldSuppressed ==
    (Returned /\ HasField(payload) /\ EndsWith(ChangedField, <<"_", "i", "d">>)
        /\ ChangedField # <<"s", "t", "a", "t", "e", "_", "i", "d">>)
    => embed.k = "none"

\* C2: an event whose activity field name is state_id is not suppressed: the
\* embed's last field is the non-inline change field, its value the arrow
\* change from the old value to data.state.name (when present and non-empty)
\* or else to the raw new value.
C2_StateIdRendered ==
    (Returned /\ HasField(payload) /\ ChangedField = <<"s", "t", "a", "t", "e", "_", "i", "d">>)
    => /\ embed.k = "embed"
       /\ LET state == DictGet(payload.data.d, <<"s", "t", "a", "t", "e">>, PyNone)
              name == IF state.t = "dict" THEN DictGet(state.d, <<"n", "a", "m", "e">>, PyNone)
                      ELSE PyNone
              shown == IF Truthy(name) THEN name ELSE payload.activity.new_value
          IN  /\ LastField(embed.embed).inline = FALSE
              /\ LastField(embed.embed).value
                    = _arrow_change(payload.activity.old_value, shown)

\* C3: no text of a returned embed that comes from the event shows a UUID:
\* not the title, not a field value, not the author name.
C3_NoUuidInEmbed ==
    (Returned /\ embed.k = "embed")
    => /\ ~ContainsUuid(embed.embed.title)
       /\ \A i \in DOMAIN embed.embed.fields : ~ContainsUuid(embed.embed.fields[i].value)
       /\ embed.embed.author.name.t = "str" => ~UuidReMatch(embed.embed.author.name.s)

\* C9: build_discord_embed is total: it returns an embed or None and never
\* raises, whatever the shapes of data.state and data.assignees.
C9_ComposeTotal ==
    Returned => embed.k \in {"embed", "none"}

-----------------------------------------------------------------------------
(* Properties of the endpoint, checked under Spec                          *)

Gets == SelectSeq(calls, LAMBDA c : c.op = "GET")
Posts == SelectSeq(calls, LAMBDA c : c.op = "POST")

HasAuthorization(c) == \E i \in DOMAIN c.headers : c.headers[i][1] = "Authorization"

TokenConfigured == Truthy(env.PLANE_API_TOKEN)

IsRedirect(reply) == reply.k = "response" /\ reply.status \in RedirectStatuses

IsSuccess(reply) == reply.k = "response" /\ reply.status >= 200 /\ reply.status <= 299

FetchOver == pc \in {"compose", "post", "done"}

\* C4: with a bearer token configured, the first GET carries the
\* Authorization header and no other request does; the GET that follows a
\* redirect goes to the Location without it.
C4_AuthOnlyOnInitialGet ==
    TokenConfigured =>
        \A i \in DOMAIN calls :
            /\ calls[i].op = "GET" => (HasAuthorization(calls[i]) <=> i = 1)
            /\ (i = 2 /\ calls[i].op = "GET")
                  => /\ IsRedirect(calls[1].reply)
                     /\ calls[2].url = calls[1].reply.location.s
                     /\ calls[2].headers = <<>>

C4_Witness ==
    /\ TokenConfigured
    /\ Len(Gets) = 2
    /\ HasAuthorization(calls[1])
    /\ calls[1].reply.status = 302

\* the avatar was asked for and the fetch failed: the reference could not be
\* resolved, or the last GET ended in a transport error or outside 2xx
FetchFailed ==
    /\ FetchOver
    /\ WantsAvatar(payload)
    /\ \/ Len(Gets) = 0
       \/ ~IsSuccess(Gets[Len(Gets)].reply)

\* C5: a failed avatar fetch yields no avatar and no error of its own: the
\* embed is composed with an author block without icon, the relay is a plain
\* JSON body, and an error answer comes only from the composition or the
\* relay.
C5_AvatarFailureSwallowed ==
    FetchFailed =>
        /\ avatar_job = PyNone
        /\ pc = "compose" => response = Pending
        /\ embed.k = "embed" =>
              /\ DOMAIN embed.embed.author = {"name"}
              /\ Len(Posts) = 1
              /\ Posts[1].kind = "json"
              /\ Posts[1].file = PyNone
        /\ (pc = "done" /\ response.code # 200) =>
              \/ embed.k = "raise"
              \/ Len(Posts) = 1 /\ ~(Posts[1].reply.k = "response"
                                     /\ Posts[1].reply.status \in {200, 204})

C5_Witness ==
    /\ FetchFailed
    /\ pc = "done"
    /\ Len(Gets) = 2
    /\ Gets[2].reply.k = "response"
    /\ Gets[2].reply.status = 404
    /\ embed.k = "embed"
    /\ response.code = 200

\* s occurs in t as a run of consecutive characters
IsInfix(s, t) == \E i \in 0..(Len(t) - Len(s)) : SubSeq(t, i + 1, i + Len(s)) = s

Forwarded == "Message forwarded to Discord successfully"

\* C6: the answer to the caller follows from the composition and the relay
\* status: a suppressed event answers success with its own status text; a
\* relay answered 200 or 204 answers success; a relay answered with another
\* status answers an error whose detail has the upstream status code and
\* the body, as parsed JSON when it parses and as raw text when not.
C6_ResponseFromRelayStatus ==
    pc = "done" =>
        /\ embed.k = "none" =>
              /\ response.code = 200
              /\ response.body.status # Forwarded
        /\ (embed.k = "embed" /\ Posts[1].reply.k = "response") =>
              LET reply == Posts[1].reply
                  parsed == JsonLoads(reply.text)
              IN  IF reply.status \in {200, 204}
                  THEN response = [code |-> 200, body |-> [status |-> Forwarded]]
                  ELSE /\ response.code = 500
                       /\ DOMAIN response.body = {"detail"}
                       /\ IsInfix(<<"(">> \o IntToStr(reply.status) \o <<")">>,
                                  response.body.detail)
                       /\ EndsWith(response.body.detail,
                                   IF parsed.ok THEN Str(parsed.v) ELSE reply.text)

C6_Witness ==
    /\ pc = "done"
    /\ embed.k = "embed"
    /\ Posts[1].reply.k = "response"
    /\ Posts[1].reply.status = 400
    /\ JsonLoads(Posts[1].reply.text).ok
    /\ response.code = 500

\* C7: at most one POST per event: exactly one once an embed was composed,
\* none when the composition returned None, and no second one after a relay
\* that failed.
C7_AtMostOnePost ==
    /\ Len(Posts) <= 1
    /\ embed.k = "embed" <=> Len(Posts) = 1
    /\ embed.k = "none" => Len(Posts) = 0
    /\ (pc = "done" /\ Len(Posts) = 1) => Posts[1].reply.k # "pending"

C7_Witness ==
    /\ pc = "done"
    /\ Len(Posts) = 1
    /\ Posts[1].reply.k = "response"
    /\ Posts[1].reply.status = 400

\* C8: one avatar fetch makes at most two GETs: the second one exactly when
\* the first reply is a redirect with a Location; a redirect in reply to the
\* second GET, or a redirect without Location, ends the fetch without
\* an avatar and without a further GET.
C8_AtMostOneRedirectHop ==
    /\ Len(Gets) <= 2
    /\ (Len(Gets) >= 1 /\ Gets[1].reply.k # "pending") =>
          (Len(Gets) = 2 <=> (IsRedirect(Gets[1].reply) /\ Truthy(Gets[1].reply.location)))
    /\ (Len(Gets) = 2 /\ IsRedirect(Gets[2].reply)) =>
          (FetchOver /\ avatar_job = PyNone)
    /\ (Len(Gets) >= 1 /\ IsRedirect(Gets[1].reply) /\ ~Truthy(Gets[1].reply.location)) =>
          (FetchOver /\ avatar_job = PyNone /\ Len(Gets) = 1)

C8_Witness ==
    /\ pc = "done"
    /\ Len(Gets) = 2
    /\ IsRedirect(Gets[2].reply)
    /\ Truthy(Gets[2].reply.location)

\* C10 as stated: no avatar GET is issued before the composer has run.
C10_ComposerBeforeAvatar ==
    Len(Gets) > 0 => embed # Unset

\* C10, amended: the avatar fetch comes first, then the composer, then the
\* POST.  The composer has not run while the fetch is under way; once it has
\* run every GET is answered; the POST is the last call and follows an embed.
C10_FetchThenComposeThenRelay ==
    /\ pc \in {"start", "get_first", "get_redirect"} => embed = Unset
    /\ embed # Unset => \A i \in DOMAIN calls :
                            calls[i].op = "GET" => calls[i].reply.k # "pending"
    /\ \A i \in DOMAIN calls :
          calls[i].op = "POST" =>
              /\ embed.k = "embed"
              /\ i = Len(calls)
              /\ \A j \in 1..(i - 1) : calls[j].op = "GET"

C10_Witness ==
    /\ pc = "done"
    /\ Len(Gets) = 2
    /\ Len(Posts) = 1
    /\ Posts[1].reply.k = "response"

=============================================================================
